---- MODULE Spec2Model ----
(***************************************************************************)
(* The debounced-search / key-driven fetch pattern of the React tutorial   *)
(* lessons, as one state machine.  One component instance is mounted per   *)
(* behaviour (comp); its useState cells are the variables of the same      *)
(* names, the pending setTimeout callbacks are `timers`, the requests the  *)
(* network has not answered yet are `inflight`.  An event handler and the  *)
(* effects React runs for the render it causes are one atomic action.      *)
(* The form, timer, storage and title lessons are further components of    *)
(* the same machine, each with the state cells its source declares.        *)
(***************************************************************************)
EXTENDS Integers, Sequences, FiniteSets, TLC

VARIABLES
  comp,             \* which component this instance is
  mounted,          \* "no" before the mount effects, "yes", "gone" after unmount
  now,              \* the clock, in ms
  userId, user, loading, error,                    \* DynamicFetch, FetchDataExample
  searchTerm, debouncedTerm, results, isSearching, searchCount,   \* search components
  timer,            \* the handle the debounce effect's closure holds (const timer)
  timers,           \* pending setTimeout callbacks: [value, due]
  inflight,         \* unanswered requests: [seq, key]
  posts,            \* FetchOnMount
  userData, index,  \* Gallery (16_Gallery_project App)
  formData, response,            \* CreateData (formData also MultiStepForm)
  step,                          \* MultiStepForm
  seconds, isRunning,            \* TimerExample
  interval,         \* the handle the interval effect's closure holds (const interval)
  intervals,        \* active setInterval ids
  intervalCount,    \* setInterval calls so far: the next id is one more
  name, favoriteColor, visitCount,                 \* LocalStorageExample
  localStorage,     \* the origin's storage: a function from the keys present to strings
  backgroundColor,  \* document.body.style.backgroundColor
  count, notifications, pageTitle,                 \* DocumentTitleExample
  documentTitle,    \* document.title
  fields,           \* DynamicForm
  title, details, notes,                           \* Notes app (12_Notes_app App)
  \* history variables (not state of the program)
  keyChanges,       \* how many times the fetch key has changed (effect runs / searches)
  latest,           \* fate of the most recent key change
  lastDelivery,     \* the response handled last: [seq, kind, current, wrote]
  lastChangeAt,     \* when the raw input changed last (the debounce effect ran last)
  burstStart,       \* when the first change of the current burst happened
  firesSinceChange, \* debounce callbacks run since the raw input changed last
  lastFireAt,       \* when a debounce callback ran last
  prevDebounced,    \* debouncedTerm before the debounce callback that ran last
  reqsSinceChange,  \* requests issued since the raw input changed last
  lastReqKey,       \* key of the request issued last
  firedAfterUnmount, \* a debounce callback ran after the component was unmounted
  lastInputAt,      \* when onChange called setSearchTerm last, with a new value or the same
  lastClick,        \* the Gallery button pressed last: [button, from, disabled, requested]
  mounts,           \* how many times the component has been mounted
  submits, deletes, \* Notes app: submitHandler / deleteNote calls so far
  lastOp            \* the handler of the form, storage and notes components that ran last

fetchVars  == <<userId, user, loading, error>>
searchVars == <<searchTerm, debouncedTerm, results, isSearching, searchCount>>
histFetch  == <<keyChanges, latest, lastDelivery>>
histTimer  == <<lastChangeAt, burstStart, firesSinceChange, lastFireAt, prevDebounced,
                reqsSinceChange, lastReqKey, firedAfterUnmount, lastInputAt>>
pageVars   == <<posts, userData, index>>
createVars == <<formData, response>>
timerVars  == <<seconds, isRunning>>
ivVars     == <<interval, intervals, intervalCount>>
storeVars  == <<name, favoriteColor, visitCount, localStorage, backgroundColor>>
titleVars  == <<count, notifications, pageTitle, documentTitle>>
noteVars   == <<title, details, notes>>
histForms  == <<mounts, submits, deletes, lastOp>>
\* The state of the form, timer, storage, title and notes components.
extras     == <<createVars, step, timerVars, ivVars, storeVars, titleVars, fields, noteVars,
               histForms>>
\* What the actions of the fetch and search components never touch.
others     == <<comp, pageVars, lastClick, extras>>
\* The state of the fetch, search and page components, without the request state.
searchAll  == <<userId, user, searchVars, timer, timers, histTimer, pageVars, lastClick>>
\* The state of the fetch, search and page components.
fetchAll   == <<searchAll, loading, error, inflight, histFetch>>
\* What the actions of TimerExample never touch.
notTimer   == <<comp, now, fetchAll, createVars, step, storeVars, titleVars, fields, noteVars,
               histForms>>
\* What the actions of LocalStorageExample never touch.
notStore   == <<comp, now, fetchAll, createVars, step, timerVars, ivVars, titleVars, fields,
               noteVars, submits, deletes>>
\* What the actions of DocumentTitleExample never touch.
notTitle   == <<comp, now, fetchAll, createVars, step, timerVars, storeVars, fields, noteVars,
               histForms>>
\* What the actions of DynamicForm, MultiStepForm and the Notes app never touch.
notForms   == <<comp, fetchAll, response, timerVars, ivVars, storeVars, titleVars, mounts>>
\* What the actions of CreateData never touch.
notCreate  == <<comp, now, searchAll, step, timerVars, ivVars, storeVars, titleVars, fields,
               noteVars, mounts, submits, deletes>>
vars == <<mounted, now, fetchVars, searchVars, timer, timers, inflight, histFetch, histTimer,
          others>>

-----------------------------------------------------------------------------
(* Bounds of the model *)
MaxUserId == 3        \* the select offers 1..10; the model offers 1..MaxUserId
MaxKeyChanges == 4    \* userId selections explored per behaviour
TickMs == 250         \* the clock advances by at most this much per step
MaxTime == 1500       \* the clock stops here
MaxPosts == 7         \* posts in the answer of GET /posts (more than the 6 shown)
MaxMounts == 3        \* mounts of LocalStorageExample explored per behaviour
MaxSeconds == 3       \* interval callbacks of TimerExample explored per behaviour
MaxCount == 2         \* largest count / notifications of DocumentTitleExample
MaxFields == 3        \* fields of DynamicForm
MaxClock == 2         \* milliseconds that pass while DynamicForm is used
MaxNotes == 3         \* submits of the Notes app explored per behaviour

(* Program constants *)
DelayMs == 500

DynamicFetch          == "DynamicFetch"
FetchDataExample      == "FetchDataExample"
DebounceSearchExample == "DebounceSearchExample"
SearchWithDebounce    == "SearchWithDebounce"
SearchForm            == "SearchForm"
FetchOnMount          == "FetchOnMount"
Gallery               == "Gallery"
CreateData            == "CreateData"
TimerExample          == "TimerExample"
LocalStorageExample   == "LocalStorageExample"
DocumentTitleExample  == "DocumentTitleExample"
DynamicForm           == "DynamicForm"
MultiStepForm         == "MultiStepForm"
NotesApp              == "NotesApp"

Components  == {DynamicFetch, FetchDataExample, DebounceSearchExample,
                SearchWithDebounce, SearchForm, FetchOnMount, Gallery,
                CreateData, TimerExample, LocalStorageExample, DocumentTitleExample,
                DynamicForm, MultiStepForm, NotesApp}
\* Components with no effect: mounting and unmounting them runs no code of theirs.
Plain       == {CreateData, DynamicForm, MultiStepForm, NotesApp}
KeyedFetch  == {DynamicFetch, FetchDataExample}
Debounced   == {DebounceSearchExample, SearchWithDebounce, SearchForm}
Searching   == {DebounceSearchExample, SearchWithDebounce}

Null == [null |-> TRUE]
UserIds == 1..MaxUserId

\* Input strings are sequences of characters, so that trim() is computed.
Terms == { <<>>, <<" ">>, <<"r">>, <<"r", "e">>, <<"r", " ">> }

RECURSIVE TrimStart(_)
TrimStart(s) == IF s # <<>> /\ Head(s) = " " THEN TrimStart(Tail(s)) ELSE s

RECURSIVE TrimEnd(_)
TrimEnd(s) == IF s # <<>> /\ s[Len(s)] = " " THEN TrimEnd(SubSeq(s, 1, Len(s) - 1)) ELSE s

\* String.prototype.trim
Trim(s) == TrimEnd(TrimStart(s))

\* What the server answers for a key: the body names the key it was asked for.
UserData(id) == [id |-> id]
Payload(term) == << [match |-> term] >>
\* SearchForm's mock results for a term.
MockResults(term) == << [mock |-> term] >>

Min(a, b) == IF a <= b THEN a ELSE b

\* GET /posts answers with more posts than are shown.
AllPosts == [i \in 1..MaxPosts |-> [id |-> i]]
\* Array.prototype.slice(from, to), 0-based, `to` excluded.
Slice(list, from, to) == SubSeq(list, from + 1, Min(to, Len(list)))
\* GET /v2/list?page=${index}: the images of that page.
PageData(page) == << [page |-> page] >>

-----------------------------------------------------------------------------
(* Strings, storage and lists *)

\* The strings the storage and title lessons compute with are sequences of
\* characters, so that toString, parseInt, startsWith and the templates are computed.
ReactApp     == <<"R", "e", "a", "c", "t", " ", "A", "p", "p">>
DefaultColor == <<"#", "3", "4", "9", "8", "d", "b">>
Red          == <<"#", "f", "f", "0", "0", "0", "0">>
Names        == { <<>>, <<"a">> }
Colors       == { DefaultColor, Red }
PageTitles   == { ReactApp, <<>>, <<"(", "x">> }
\* What document.title may be before the component is rendered.
InitialTitles == { ReactApp, <<"V", "i", "t", "e">> }
\* What the user types into a form field.
Texts        == { "", "a" }

Digits == <<"0", "1", "2", "3", "4", "5", "6", "7", "8", "9">>
IsDigit(c) == \E d \in 1..Len(Digits) : Digits[d] = c
DigitValue(c) == (CHOOSE d \in 1..Len(Digits) : Digits[d] = c) - 1

\* Number.prototype.toString of a non-negative integer
RECURSIVE NumberToString(_)
NumberToString(n) ==
  IF n < Len(Digits)
    THEN << Digits[n + 1] >>
    ELSE NumberToString(n \div Len(Digits)) \o << Digits[(n % Len(Digits)) + 1] >>

RECURSIVE ParseDigits(_, _)
ParseDigits(s, acc) ==
  IF s = <<>> \/ ~IsDigit(Head(s))
    THEN acc
    ELSE ParseDigits(Tail(s), acc * Len(Digits) + DigitValue(Head(s)))

\* parseInt(s): the leading digits of s; NaN when there is none.
ParseInt(s) == IF s = <<>> \/ ~IsDigit(Head(s)) THEN "NaN" ELSE ParseDigits(s, 0)

\* localStorage: getItem(key) is truthy (neither null nor "")
Truthy(store, key) == key \in DOMAIN store /\ store[key] # <<>>
\* localStorage.getItem(key) || fallback
GetItemOr(store, key, fallback) == IF Truthy(store, key) THEN store[key] ELSE fallback
\* localStorage.setItem(key, value)
SetItem(store, key, value) ==
  [k \in DOMAIN store \cup {key} |-> IF k = key THEN value ELSE store[k]]
\* localStorage.clear()
Cleared == [k \in {} |-> <<>>]

\* `Count: ${count} | ${pageTitle}`
CountTitle(c, t) == <<"C", "o", "u", "n", "t", ":", " ">> \o NumberToString(c) \o <<" ", "|", " ">> \o t
\* `(${notifications}) ${pageTitle}`
NotificationTitle(n, t) == <<"(">> \o NumberToString(n) \o <<")", " ">> \o t
\* String.prototype.startsWith("(")
StartsWithParen(s) == s # <<>> /\ Head(s) = "("

\* copy.splice(idx, 1) on a copy of list, idx 0-based: the copy afterwards.
Splice(list, idx) == SubSeq(list, 1, idx) \o SubSeq(list, idx + 2, Len(list))
\* fields.filter((field) => field.id !== id)
RECURSIVE FilterOutId(_, _)
FilterOutId(list, id) ==
  IF list = <<>> THEN <<>>
  ELSE (IF Head(list).id # id THEN << Head(list) >> ELSE <<>>) \o FilterOutId(Tail(list), id)
\* fields.map((field) => (field.id === id ? { ...field, value } : field))
MapSetValue(list, id, value) ==
  [i \in 1..Len(list) |-> IF list[i].id = id THEN [list[i] EXCEPT !.value = value]
                                            ELSE list[i]]

-----------------------------------------------------------------------------
(* Timers *)

\* setTimeout of a buggy variant: the callback is due at once.
SetTimeoutNoDelay(value) == [value |-> value, due |-> now]

\* setTimeout(callback, 500): the callback closes over the value of this render.
SetTimeout(value) == [value |-> value, due |-> now + DelayMs]

\* The effect cleanup of a buggy variant: the timer is left pending.
CleanupLeak(ts) == ts

\* The effect cleanup, clearTimeout(timer): the closure's own timer is cancelled.
Cleanup(ts) == ts \ {timer}


-----------------------------------------------------------------------------
Init ==
  /\ comp \in Components
  /\ mounted = "no"
  /\ now = 0
  /\ userId = 1 /\ user = Null /\ error = Null
  /\ loading = (comp = FetchOnMount)      \* useState(true) there, useState(false) elsewhere
  /\ searchTerm = <<>> /\ debouncedTerm = <<>> /\ results = <<>>
  /\ isSearching = FALSE /\ searchCount = 0
  /\ timer = Null /\ timers = {} /\ inflight = {}
  /\ keyChanges = 0 /\ latest = "none"
  /\ lastDelivery = [seq |-> 0, kind |-> "none", current |-> FALSE, wrote |-> FALSE]
  /\ lastChangeAt = 0 /\ burstStart = 0 /\ firesSinceChange = 0 /\ lastFireAt = 0
  /\ prevDebounced = <<>> /\ reqsSinceChange = 0 /\ lastReqKey = <<>>
  /\ firedAfterUnmount = FALSE /\ lastInputAt = 0
  /\ posts = <<>> /\ userData = <<>> /\ index = 1
  /\ lastClick = [button |-> "none", from |-> 0, disabled |-> FALSE, requested |-> FALSE]
  /\ formData = IF comp = MultiStepForm
                  THEN [firstName |-> "", lastName |-> "", email |-> "", phone |-> "",
                        address |-> "", city |-> ""]
                  ELSE [title |-> "", body |-> "", userId |-> 1]
  /\ response = Null
  /\ step = 1
  /\ seconds = 0 /\ isRunning = TRUE
  /\ interval = 0 /\ intervals = {} /\ intervalCount = 0
  /\ name = <<>> /\ favoriteColor = DefaultColor /\ visitCount = 0
  /\ localStorage = Cleared /\ backgroundColor = <<>>
  /\ count = 0 /\ notifications = 0 /\ pageTitle = ReactApp
  /\ documentTitle \in (IF comp = DocumentTitleExample THEN InitialTitles ELSE {ReactApp})
  /\ fields = << [id |-> 1, value |-> ""] >>
  /\ title = "" /\ details = "" /\ notes = <<>>
  /\ mounts = 0 /\ submits = 0 /\ deletes = 0 /\ lastOp = [op |-> "none"]

\* A request leaves for `key`; it is the request of key change number keyChanges + 1.
Request(key) == [seq |-> keyChanges + 1, key |-> key]

\* What the history records when the response of request r is handled.
Delivered(r, kind) ==
  [seq |-> r.seq, kind |-> kind, current |-> r.seq = keyChanges, wrote |-> mounted = "yes"]

-----------------------------------------------------------------------------
(* DynamicFetch *)

\* The effect of a buggy variant: setError(null) is missing.
DFFetchUserKeepError(id) ==
  /\ loading' = TRUE
  /\ inflight' = inflight \cup {Request(id)}
  /\ keyChanges' = keyChanges + 1
  /\ latest' = "pending"
  /\ UNCHANGED <<user, error, searchVars, timer, timers, now, others, lastDelivery, histTimer>>

\* The effect of a buggy variant: the user is reset when a fetch starts.
DFFetchUserClearing(id) ==
  /\ loading' = TRUE
  /\ error' = Null
  /\ user' = Null
  /\ inflight' = inflight \cup {Request(id)}
  /\ keyChanges' = keyChanges + 1
  /\ latest' = "pending"
  /\ UNCHANGED <<searchVars, timer, timers, now, others, lastDelivery, histTimer>>

\* The effect of [userId]: fetchUser() up to its await.
DFFetchUser(id) ==
  /\ loading' = TRUE
  /\ error' = Null
  /\ inflight' = inflight \cup {Request(id)}
  /\ keyChanges' = keyChanges + 1
  /\ latest' = "pending"
  /\ UNCHANGED <<user, searchVars, timer, timers, now, others, lastDelivery, histTimer>>

DFMount ==
  /\ comp = DynamicFetch /\ mounted = "no"
  /\ mounted' = "yes"
  /\ UNCHANGED userId
  /\ DFFetchUser(userId)

\* <select onChange> of a buggy variant: the effect has [] as dependencies, so
\* a new userId fetches nothing.
DFSelectNoFetch(id) ==
  /\ comp = DynamicFetch /\ mounted = "yes"
  /\ id # userId
  /\ keyChanges < MaxKeyChanges
  /\ userId' = id
  /\ keyChanges' = keyChanges + 1
  /\ UNCHANGED <<mounted, user, loading, error, inflight, latest, searchVars, timer, timers,
                 now, others, lastDelivery, histTimer>>

\* <select onChange>: setUserId(Number(e.target.value)), then the effect of [userId].
DFSelect(id) ==
  /\ comp = DynamicFetch /\ mounted = "yes"
  /\ id # userId
  /\ keyChanges < MaxKeyChanges
  /\ userId' = id
  /\ UNCHANGED mounted
  /\ DFFetchUser(id)

\* await axios.get resolved: setUser(response.data); finally setLoading(false).
DFResolve(r) ==
  /\ comp = DynamicFetch /\ r \in inflight
  /\ inflight' = inflight \ {r}
  /\ IF mounted = "yes"
       THEN user' = UserData(r.key) /\ loading' = FALSE /\ UNCHANGED error
       ELSE UNCHANGED <<user, loading, error>>
  /\ lastDelivery' = Delivered(r, "ok")
  /\ latest' = IF r.seq = keyChanges THEN "ok" ELSE latest
  /\ UNCHANGED <<userId, searchVars, timer, timers, now, others, mounted, keyChanges, histTimer>>

\* A catch block of a buggy variant: the failure also clears the user.
DFRejectClearing(r) ==
  /\ comp = DynamicFetch /\ r \in inflight
  /\ inflight' = inflight \ {r}
  /\ IF mounted = "yes"
       THEN error' = [message |-> "Network Error"] /\ loading' = FALSE /\ user' = Null
       ELSE UNCHANGED <<user, loading, error>>
  /\ lastDelivery' = Delivered(r, "fail")
  /\ latest' = IF r.seq = keyChanges THEN "fail" ELSE latest
  /\ UNCHANGED <<userId, searchVars, timer, timers, now, others, mounted, keyChanges, histTimer>>

\* await axios.get rejected: catch setError(err.message); finally setLoading(false).
DFReject(r) ==
  /\ comp = DynamicFetch /\ r \in inflight
  /\ inflight' = inflight \ {r}
  /\ IF mounted = "yes"
       THEN error' = [message |-> "Network Error"] /\ loading' = FALSE /\ UNCHANGED user
       ELSE UNCHANGED <<user, loading, error>>
  /\ lastDelivery' = Delivered(r, "fail")
  /\ latest' = IF r.seq = keyChanges THEN "fail" ELSE latest
  /\ UNCHANGED <<userId, searchVars, timer, timers, now, others, mounted, keyChanges, histTimer>>

-----------------------------------------------------------------------------
(* FetchDataExample *)

\* The effect of [userId] up to fetch(...).
FDEFetch(id) ==
  /\ loading' = TRUE
  /\ error' = Null
  /\ inflight' = inflight \cup {Request(id)}
  /\ keyChanges' = keyChanges + 1
  /\ latest' = "pending"
  /\ UNCHANGED <<user, searchVars, timer, timers, now, others, lastDelivery, histTimer>>

FDEMount ==
  /\ comp = FetchDataExample /\ mounted = "no"
  /\ mounted' = "yes"
  /\ UNCHANGED userId
  /\ FDEFetch(userId)

\* <select onChange>: setUserId(Number(e.target.value)), then the effect of [userId].
FDESelect(id) ==
  /\ comp = FetchDataExample /\ mounted = "yes"
  /\ id # userId
  /\ keyChanges < MaxKeyChanges
  /\ userId' = id
  /\ UNCHANGED mounted
  /\ FDEFetch(id)

\* fetch resolved with a response: ok -> json -> setUser, setLoading(false);
\* not ok -> throw Error("Failed to fetch") -> catch.
FDEResponse(r, ok) ==
  /\ comp = FetchDataExample /\ r \in inflight
  /\ inflight' = inflight \ {r}
  /\ IF mounted = "yes"
       THEN IF ok
              THEN user' = UserData(r.key) /\ loading' = FALSE /\ UNCHANGED error
              ELSE error' = [message |-> "Failed to fetch"] /\ loading' = FALSE
                   /\ UNCHANGED user
       ELSE UNCHANGED <<user, loading, error>>
  /\ lastDelivery' = Delivered(r, IF ok THEN "ok" ELSE "fail")
  /\ latest' = IF r.seq = keyChanges THEN (IF ok THEN "ok" ELSE "fail") ELSE latest
  /\ UNCHANGED <<userId, searchVars, timer, timers, now, others, mounted, keyChanges, histTimer>>

\* fetch rejected (network failure): catch setError(err.message); setLoading(false).
FDEReject(r) ==
  /\ comp = FetchDataExample /\ r \in inflight
  /\ inflight' = inflight \ {r}
  /\ IF mounted = "yes"
       THEN error' = [message |-> "Failed to fetch"] /\ loading' = FALSE /\ UNCHANGED user
       ELSE UNCHANGED <<user, loading, error>>
  /\ lastDelivery' = Delivered(r, "fail")
  /\ latest' = IF r.seq = keyChanges THEN "fail" ELSE latest
  /\ UNCHANGED <<userId, searchVars, timer, timers, now, others, mounted, keyChanges, histTimer>>


-----------------------------------------------------------------------------
(* The debounce effect, common to the three search components *)

\* History: the raw input changed now (the debounce effect ran for a new value).
NoteChange ==
  /\ lastChangeAt' = now
  /\ burstStart' = IF mounted = "yes" /\ now - lastChangeAt < DelayMs THEN burstStart ELSE now
  /\ firesSinceChange' = 0
  /\ lastInputAt' = now
  /\ UNCHANGED <<lastFireAt, prevDebounced, lastReqKey, firedAfterUnmount>>

\* History: a debounce callback runs now.
NoteFire ==
  /\ firesSinceChange' = firesSinceChange + 1
  /\ lastFireAt' = now
  /\ prevDebounced' = debouncedTerm
  /\ firedAfterUnmount' = (firedAfterUnmount \/ mounted # "yes")
  /\ UNCHANGED <<lastChangeAt, burstStart, lastInputAt>>

\* useEffect(..., [searchTerm]): cleanup of the previous run, then a new timer.
DebounceEffect(value) ==
  /\ timer' = SetTimeout(value)
  /\ timers' = Cleanup(timers) \cup {timer'}

-----------------------------------------------------------------------------
(* DebounceSearchExample *)

\* The effect of a buggy variant: a blank term returns without setResults([]).
DSESearchEffectKeepsResults(term) ==
  IF Trim(term) = <<>>
    THEN /\ keyChanges' = keyChanges + 1
         /\ latest' = "empty"
         /\ UNCHANGED <<results, isSearching, searchCount, inflight, reqsSinceChange,
                        lastReqKey>>
    ELSE /\ isSearching' = TRUE
         /\ searchCount' = searchCount + 1
         /\ inflight' = inflight \cup {Request(term)}
         /\ keyChanges' = keyChanges + 1
         /\ latest' = "pending"
         /\ reqsSinceChange' = reqsSinceChange + 1
         /\ lastReqKey' = term
         /\ UNCHANGED results

\* useEffect(..., [debouncedTerm]) for the value `term` of this render.
DSESearchEffect(term) ==
  IF Trim(term) = <<>>
    THEN /\ results' = <<>>
         /\ keyChanges' = keyChanges + 1
         /\ latest' = "empty"
         /\ UNCHANGED <<isSearching, searchCount, inflight, reqsSinceChange, lastReqKey>>
    ELSE /\ isSearching' = TRUE
         /\ searchCount' = searchCount + 1
         /\ inflight' = inflight \cup {Request(term)}
         /\ keyChanges' = keyChanges + 1
         /\ latest' = "pending"
         /\ reqsSinceChange' = reqsSinceChange + 1
         /\ lastReqKey' = term
         /\ UNCHANGED results

DSEMount ==
  /\ comp = DebounceSearchExample /\ mounted = "no"
  /\ mounted' = "yes"
  /\ DebounceEffect(searchTerm)
  /\ DSESearchEffect(debouncedTerm)
  /\ lastChangeAt' = now /\ burstStart' = now
  /\ UNCHANGED <<searchTerm, debouncedTerm, fetchVars, now, others, lastDelivery,
                 firesSinceChange, lastFireAt, prevDebounced, firedAfterUnmount, lastInputAt>>

\* <input onChange>: setSearchTerm(e.target.value); the same value is no change.
DSEType(v) ==
  /\ comp = DebounceSearchExample /\ mounted = "yes"
  /\ v # searchTerm
  /\ searchTerm' = v
  /\ DebounceEffect(v)
  /\ NoteChange
  /\ reqsSinceChange' = 0
  /\ UNCHANGED <<debouncedTerm, results, isSearching, searchCount, fetchVars, inflight,
                 now, others, mounted, histFetch>>

\* onChange of a buggy variant: the debounce effect runs again for an unchanged value.
DSESameInputRestarts ==
  /\ comp = DebounceSearchExample /\ mounted = "yes"
  /\ DebounceEffect(searchTerm)
  /\ lastInputAt' = now
  /\ UNCHANGED <<fetchVars, searchVars, inflight, now, others, mounted, histFetch,
                 lastChangeAt, burstStart, firesSinceChange, lastFireAt, prevDebounced,
                 reqsSinceChange, lastReqKey, firedAfterUnmount>>

\* <input onChange> with the value the state already holds: setSearchTerm bails
\* out, nothing renders and the effect of [searchTerm] does not run.
DSESameInput ==
  /\ comp = DebounceSearchExample /\ mounted = "yes"
  /\ lastInputAt' = now
  /\ UNCHANGED <<fetchVars, searchVars, timer, timers, inflight, now, others, mounted,
                 histFetch, lastChangeAt, burstStart, firesSinceChange, lastFireAt,
                 prevDebounced, reqsSinceChange, lastReqKey, firedAfterUnmount>>

\* The timer callback: setDebouncedTerm(searchTerm of the render that set the timer);
\* when the value differs, the effect of [debouncedTerm] runs.
DSETimerFire(t) ==
  /\ comp = DebounceSearchExample /\ t \in timers /\ now >= t.due
  /\ timers' = timers \ {t}
  /\ NoteFire
  /\ IF mounted = "yes"
       THEN /\ debouncedTerm' = t.value
            /\ IF t.value # debouncedTerm
                 THEN DSESearchEffect(t.value)
                 ELSE UNCHANGED <<results, isSearching, searchCount, inflight, keyChanges,
                                  latest, reqsSinceChange, lastReqKey>>
       ELSE UNCHANGED <<debouncedTerm, results, isSearching, searchCount, inflight,
                        keyChanges, latest, reqsSinceChange, lastReqKey>>
  /\ UNCHANGED <<searchTerm, fetchVars, timer, now, others, mounted, lastDelivery>>

\* fetch(...).then(json).then(data => { setResults(data); setIsSearching(false) }).
DSEResolve(r) ==
  /\ comp = DebounceSearchExample /\ r \in inflight
  /\ inflight' = inflight \ {r}
  /\ IF mounted = "yes"
       THEN results' = Payload(r.key) /\ isSearching' = FALSE
       ELSE UNCHANGED <<results, isSearching>>
  /\ lastDelivery' = Delivered(r, "ok")
  /\ latest' = IF r.seq = keyChanges THEN "ok" ELSE latest
  /\ UNCHANGED <<searchTerm, debouncedTerm, searchCount, fetchVars, timer, timers, now,
                 others, mounted, keyChanges, histTimer>>

\* .catch(error => { console.error; setIsSearching(false) }).
DSEReject(r) ==
  /\ comp = DebounceSearchExample /\ r \in inflight
  /\ inflight' = inflight \ {r}
  /\ IF mounted = "yes" THEN isSearching' = FALSE ELSE UNCHANGED isSearching
  /\ lastDelivery' = Delivered(r, "fail")
  /\ latest' = IF r.seq = keyChanges THEN "fail" ELSE latest
  /\ UNCHANGED <<searchTerm, debouncedTerm, results, searchCount, fetchVars, timer, timers,
                 now, others, mounted, keyChanges, histTimer>>

-----------------------------------------------------------------------------
(* SearchWithDebounce *)

SWDMount ==
  /\ comp = SearchWithDebounce /\ mounted = "no"
  /\ mounted' = "yes"
  /\ DebounceEffect(searchTerm)
  /\ lastChangeAt' = now /\ burstStart' = now
  /\ UNCHANGED <<searchVars, fetchVars, inflight, now, others, histFetch, firesSinceChange,
                 lastFireAt, prevDebounced, reqsSinceChange, lastReqKey, firedAfterUnmount, lastInputAt>>

\* <input onChange>: setSearchTerm(e.target.value); the same value is no change.
SWDType(v) ==
  /\ comp = SearchWithDebounce /\ mounted = "yes"
  /\ v # searchTerm
  /\ searchTerm' = v
  /\ DebounceEffect(v)
  /\ NoteChange
  /\ reqsSinceChange' = 0
  /\ UNCHANGED <<debouncedTerm, results, isSearching, searchCount, fetchVars, inflight,
                 now, others, mounted, histFetch>>

\* The timer callback: searchUsers(searchTerm) up to its await when the term is
\* not blank, setResults([]) when it is.  setState of an unmounted component is
\* dropped, the axios call is not.
SWDTimerFire(t) ==
  /\ comp = SearchWithDebounce /\ t \in timers /\ now >= t.due
  /\ timers' = timers \ {t}
  /\ NoteFire
  /\ keyChanges' = keyChanges + 1
  /\ IF Trim(t.value) # <<>>
       THEN /\ loading' = (IF mounted = "yes" THEN TRUE ELSE loading)
            /\ inflight' = inflight \cup {Request(t.value)}
            /\ latest' = "pending"
            /\ reqsSinceChange' = reqsSinceChange + 1
            /\ lastReqKey' = t.value
            /\ UNCHANGED results
       ELSE /\ results' = (IF mounted = "yes" THEN <<>> ELSE results)
            /\ latest' = "empty"
            /\ UNCHANGED <<loading, inflight, reqsSinceChange, lastReqKey>>
  /\ UNCHANGED <<searchTerm, debouncedTerm, isSearching, searchCount, userId, user, error,
                 timer, now, others, mounted, lastDelivery>>

\* await axios.get resolved: setResults(filtered); finally setLoading(false).
SWDResolve(r) ==
  /\ comp = SearchWithDebounce /\ r \in inflight
  /\ inflight' = inflight \ {r}
  /\ IF mounted = "yes"
       THEN results' = Payload(r.key) /\ loading' = FALSE
       ELSE UNCHANGED <<results, loading>>
  /\ lastDelivery' = Delivered(r, "ok")
  /\ latest' = IF r.seq = keyChanges THEN "ok" ELSE latest
  /\ UNCHANGED <<searchTerm, debouncedTerm, isSearching, searchCount, userId, user, error,
                 timer, timers, now, others, mounted, keyChanges, histTimer>>

\* await axios.get rejected: catch console.error; finally setLoading(false).
SWDReject(r) ==
  /\ comp = SearchWithDebounce /\ r \in inflight
  /\ inflight' = inflight \ {r}
  /\ IF mounted = "yes" THEN loading' = FALSE ELSE UNCHANGED loading
  /\ lastDelivery' = Delivered(r, "fail")
  /\ latest' = IF r.seq = keyChanges THEN "fail" ELSE latest
  /\ UNCHANGED <<searchVars, userId, user, error, timer, timers, now, others, mounted,
                 keyChanges, histTimer>>

-----------------------------------------------------------------------------
(* SearchForm *)

\* useEffect(..., [debouncedTerm]): mock results for a truthy term, [] otherwise.
SFSearchEffect(term) ==
  results' = IF term # <<>> THEN MockResults(term) ELSE <<>>

SFMount ==
  /\ comp = SearchForm /\ mounted = "no"
  /\ mounted' = "yes"
  /\ DebounceEffect(searchTerm)
  /\ SFSearchEffect(debouncedTerm)
  /\ lastChangeAt' = now /\ burstStart' = now
  /\ UNCHANGED <<searchTerm, debouncedTerm, isSearching, searchCount, fetchVars, inflight,
                 now, others, histFetch, firesSinceChange, lastFireAt, prevDebounced,
                 reqsSinceChange, lastReqKey, firedAfterUnmount, lastInputAt>>

\* <input onChange>: setSearchTerm(e.target.value); the same value is no change.
SFType(v) ==
  /\ comp = SearchForm /\ mounted = "yes"
  /\ v # searchTerm
  /\ searchTerm' = v
  /\ DebounceEffect(v)
  /\ NoteChange
  /\ UNCHANGED <<debouncedTerm, results, isSearching, searchCount, fetchVars, inflight,
                 now, others, mounted, histFetch, reqsSinceChange>>

\* The timer callback: setDebouncedTerm(searchTerm); when the value differs, the
\* effect of [debouncedTerm] runs.
SFTimerFire(t) ==
  /\ comp = SearchForm /\ t \in timers /\ now >= t.due
  /\ timers' = timers \ {t}
  /\ NoteFire
  /\ IF mounted = "yes"
       THEN /\ debouncedTerm' = t.value
            /\ IF t.value # debouncedTerm THEN SFSearchEffect(t.value) ELSE UNCHANGED results
       ELSE UNCHANGED <<debouncedTerm, results>>
  /\ UNCHANGED <<searchTerm, isSearching, searchCount, fetchVars, timer, inflight, now,
                 others, mounted, histFetch, reqsSinceChange, lastReqKey>>

-----------------------------------------------------------------------------
(* FetchOnMount *)

\* useEffect(..., []): fetchPosts() up to its await.
FOMMount ==
  /\ comp = FetchOnMount /\ mounted = "no"
  /\ mounted' = "yes"
  /\ loading' = TRUE
  /\ inflight' = inflight \cup {Request("posts")}
  /\ keyChanges' = keyChanges + 1
  /\ latest' = "pending"
  /\ UNCHANGED <<userId, user, error, searchVars, timer, timers, now, others, lastDelivery,
                 histTimer>>

\* await axios.get resolved: setPosts(response.data.slice(0, 6)); finally setLoading(false).
FOMResolve(r) ==
  /\ comp = FetchOnMount /\ r \in inflight
  /\ inflight' = inflight \ {r}
  /\ IF mounted = "yes"
       THEN posts' = Slice(AllPosts, 0, 6) /\ loading' = FALSE
       ELSE UNCHANGED <<posts, loading>>
  /\ lastDelivery' = Delivered(r, "ok")
  /\ latest' = IF r.seq = keyChanges THEN "ok" ELSE latest
  /\ UNCHANGED <<userId, user, error, searchVars, timer, timers, now, comp, extras, userData, index,
                 lastClick, mounted, keyChanges, histTimer>>

\* A catch block of a buggy variant: the failed request is sent again.
FOMRejectRetry(r) ==
  /\ comp = FetchOnMount /\ r \in inflight
  /\ inflight' = (inflight \ {r}) \cup {[seq |-> r.seq, key |-> "retry"]}
  /\ IF mounted = "yes"
       THEN error' = [message |-> "Network Error"] /\ loading' = FALSE
       ELSE UNCHANGED <<error, loading>>
  /\ lastDelivery' = Delivered(r, "fail")
  /\ latest' = IF r.seq = keyChanges THEN "fail" ELSE latest
  /\ UNCHANGED <<userId, user, searchVars, timer, timers, now, others, mounted, keyChanges,
                 histTimer>>

\* await axios.get rejected: catch setError(err.message); finally setLoading(false).
FOMReject(r) ==
  /\ comp = FetchOnMount /\ r \in inflight
  /\ inflight' = inflight \ {r}
  /\ IF mounted = "yes"
       THEN error' = [message |-> "Network Error"] /\ loading' = FALSE
       ELSE UNCHANGED <<error, loading>>
  /\ lastDelivery' = Delivered(r, "fail")
  /\ latest' = IF r.seq = keyChanges THEN "fail" ELSE latest
  /\ UNCHANGED <<userId, user, searchVars, timer, timers, now, others, mounted, keyChanges,
                 histTimer>>

-----------------------------------------------------------------------------
(* Gallery (16_Gallery_project) *)

\* useEffect(..., [getData]): getData() up to its await, for the page of this render.
GalleryGetData(page) ==
  /\ loading' = TRUE
  /\ inflight' = inflight \cup {Request(page)}
  /\ keyChanges' = keyChanges + 1
  /\ latest' = "pending"
  /\ UNCHANGED <<userId, user, error, searchVars, timer, timers, now, comp, extras, posts, userData,
                 lastDelivery, histTimer>>

GalleryMount ==
  /\ comp = Gallery /\ mounted = "no"
  /\ mounted' = "yes"
  /\ UNCHANGED <<index, lastClick>>
  /\ GalleryGetData(index)

\* What a press of a button does when it does not reach setIndex: nothing.
GalleryNoClick(button) ==
  /\ lastClick' = [button |-> button, from |-> index, disabled |-> TRUE, requested |-> FALSE]
  /\ UNCHANGED <<index, loading, inflight, keyChanges, latest, userId, user, error,
                 searchVars, timer, timers, now, comp, extras, posts, userData, lastDelivery,
                 histTimer>>

\* The Next button of a buggy variant: it is not disabled while loading.
GalleryNextNotDisabled ==
  /\ comp = Gallery /\ mounted = "yes"
  /\ keyChanges < MaxKeyChanges
  /\ UNCHANGED mounted
  /\ index' = index + 1
  /\ lastClick' = [button |-> "next", from |-> index, disabled |-> FALSE, requested |-> TRUE]
  /\ GalleryGetData(index + 1)

\* A press of the Next button, disabled={loading}: setIndex(index + 1), then the
\* effect; a disabled button dispatches no click.
GalleryNext ==
  /\ comp = Gallery /\ mounted = "yes"
  /\ keyChanges < MaxKeyChanges
  /\ UNCHANGED mounted
  /\ IF loading
       THEN GalleryNoClick("next")
       ELSE /\ index' = index + 1
            /\ lastClick' = [button |-> "next", from |-> index, disabled |-> FALSE,
                             requested |-> TRUE]
            /\ GalleryGetData(index + 1)

\* The Previous button of a buggy variant: neither disabled on page 1 nor guarded.
GalleryPreviousUnguarded ==
  /\ comp = Gallery /\ mounted = "yes"
  /\ keyChanges < MaxKeyChanges
  /\ UNCHANGED mounted
  /\ IF loading
       THEN GalleryNoClick("previous")
       ELSE /\ index' = index - 1
            /\ lastClick' = [button |-> "previous", from |-> index, disabled |-> FALSE,
                             requested |-> TRUE]
            /\ GalleryGetData(index - 1)

\* A press of the Previous button, disabled={index === 1 || loading}:
\* if (index > 1) setIndex(index - 1), then the effect.
GalleryPrevious ==
  /\ comp = Gallery /\ mounted = "yes"
  /\ keyChanges < MaxKeyChanges
  /\ UNCHANGED mounted
  /\ IF (index = 1 \/ loading) \/ ~(index > 1)
       THEN GalleryNoClick("previous")
       ELSE /\ index' = index - 1
            /\ lastClick' = [button |-> "previous", from |-> index, disabled |-> FALSE,
                             requested |-> TRUE]
            /\ GalleryGetData(index - 1)

\* await axios.get resolved: setUserData(response.data); finally setLoading(false).
GalleryResolve(r) ==
  /\ comp = Gallery /\ r \in inflight
  /\ inflight' = inflight \ {r}
  /\ IF mounted = "yes"
       THEN userData' = PageData(r.key) /\ loading' = FALSE
       ELSE UNCHANGED <<userData, loading>>
  /\ lastDelivery' = Delivered(r, "ok")
  /\ latest' = IF r.seq = keyChanges THEN "ok" ELSE latest
  /\ UNCHANGED <<userId, user, error, searchVars, timer, timers, now, comp, extras, posts, index,
                 lastClick, mounted, keyChanges, histTimer>>

\* getData of a buggy variant: setLoading(false) only after a successful fetch.
GalleryRejectKeepsLoading(r) ==
  /\ comp = Gallery /\ r \in inflight
  /\ inflight' = inflight \ {r}
  /\ lastDelivery' = Delivered(r, "fail")
  /\ latest' = IF r.seq = keyChanges THEN "fail" ELSE latest
  /\ UNCHANGED <<userId, user, loading, error, searchVars, timer, timers, now, others,
                 mounted, keyChanges, histTimer>>

\* await axios.get rejected: catch console.error; finally setLoading(false).
GalleryReject(r) ==
  /\ comp = Gallery /\ r \in inflight
  /\ inflight' = inflight \ {r}
  /\ IF mounted = "yes" THEN loading' = FALSE ELSE UNCHANGED loading
  /\ lastDelivery' = Delivered(r, "fail")
  /\ latest' = IF r.seq = keyChanges THEN "fail" ELSE latest
  /\ UNCHANGED <<userId, user, error, searchVars, timer, timers, now, others, mounted,
                 keyChanges, histTimer>>

-----------------------------------------------------------------------------
(* Components without effects *)

\* React renders a component that has no effect: none of its code runs after the render.
PlainMount ==
  /\ comp \in Plain /\ mounted = "no"
  /\ mounted' = "yes"
  /\ UNCHANGED <<now, fetchAll, others>>

-----------------------------------------------------------------------------
(* CreateData *)

\* useState({ title: "", body: "", userId: 1 }) and the form reset
EmptyPost == [title |-> "", body |-> "", userId |-> 1]
\* res.data: the server echoes the post it received.
Created(post) == [created |-> post]

\* <input onChange>: setFormData({ ...formData, title: e.target.value })
CDSetTitle(v) ==
  /\ comp = CreateData /\ mounted = "yes"
  /\ formData' = [formData EXCEPT !.title = v]
  /\ lastOp' = [op |-> "title"]
  /\ UNCHANGED <<mounted, loading, error, response, inflight, histFetch, notCreate>>

\* <textarea onChange>: setFormData({ ...formData, body: e.target.value })
CDSetBody(v) ==
  /\ comp = CreateData /\ mounted = "yes"
  /\ formData' = [formData EXCEPT !.body = v]
  /\ lastOp' = [op |-> "body"]
  /\ UNCHANGED <<mounted, loading, error, response, inflight, histFetch, notCreate>>

\* A submit of the form (button disabled={loading}, both fields required):
\* handleSubmit up to its await.
CDSubmit ==
  /\ comp = CreateData /\ mounted = "yes"
  /\ ~loading
  /\ formData.title # "" /\ formData.body # ""
  /\ keyChanges < MaxKeyChanges
  /\ loading' = TRUE
  /\ error' = Null
  /\ response' = Null
  /\ inflight' = inflight \cup {Request(formData)}
  /\ keyChanges' = keyChanges + 1
  /\ latest' = "pending"
  /\ lastOp' = [op |-> "submit"]
  /\ UNCHANGED <<mounted, formData, lastDelivery, notCreate>>

\* await axios.post resolved: setResponse(res.data); setFormData(empty);
\* finally setLoading(false).
CDResolve(r) ==
  /\ comp = CreateData /\ r \in inflight
  /\ inflight' = inflight \ {r}
  /\ IF mounted = "yes"
       THEN /\ response' = Created(r.key)
            /\ formData' = EmptyPost
            /\ loading' = FALSE
       ELSE UNCHANGED <<response, formData, loading>>
  /\ lastDelivery' = Delivered(r, "ok")
  /\ latest' = IF r.seq = keyChanges THEN "ok" ELSE latest
  /\ lastOp' = [op |-> "created"]
  /\ UNCHANGED <<mounted, error, keyChanges, notCreate>>

\* A catch block of a buggy variant: the form is reset after a failure as well.
CDRejectResetsForm(r) ==
  /\ comp = CreateData /\ r \in inflight
  /\ inflight' = inflight \ {r}
  /\ IF mounted = "yes"
       THEN /\ error' = [message |-> "Network Error"]
            /\ formData' = EmptyPost
            /\ loading' = FALSE
       ELSE UNCHANGED <<error, formData, loading>>
  /\ lastDelivery' = Delivered(r, "fail")
  /\ latest' = IF r.seq = keyChanges THEN "fail" ELSE latest
  /\ lastOp' = [op |-> "failed"]
  /\ UNCHANGED <<mounted, response, keyChanges, notCreate>>

\* await axios.post rejected: catch setError(err.message); finally setLoading(false).
CDReject(r) ==
  /\ comp = CreateData /\ r \in inflight
  /\ inflight' = inflight \ {r}
  /\ IF mounted = "yes"
       THEN /\ error' = [message |-> "Network Error"]
            /\ loading' = FALSE
       ELSE UNCHANGED <<error, loading>>
  /\ lastDelivery' = Delivered(r, "fail")
  /\ latest' = IF r.seq = keyChanges THEN "fail" ELSE latest
  /\ lastOp' = [op |-> "failed"]
  /\ UNCHANGED <<mounted, response, formData, keyChanges, notCreate>>

-----------------------------------------------------------------------------
(* TimerExample *)

\* clearInterval(interval) in the effect cleanup: the closure's own interval stops.
ClearInterval(ivs) == ivs \ {interval}

\* useEffect(..., [isRunning]) for the value `running` of this render, after the
\* cleanup of the previous run has left the intervals `ivs`.
TEEffect(running, ivs) ==
  IF running
    THEN /\ intervalCount' = intervalCount + 1
         /\ interval' = intervalCount + 1
         /\ intervals' = ivs \cup {intervalCount + 1}
    ELSE /\ intervals' = ivs
         /\ UNCHANGED <<interval, intervalCount>>

TEMount ==
  /\ comp = TimerExample /\ mounted = "no"
  /\ mounted' = "yes"
  /\ TEEffect(isRunning, intervals)
  /\ UNCHANGED <<seconds, isRunning, notTimer>>

\* Pause/Start of a buggy variant: the effect returns no cleanup.
TEToggleNoCleanup ==
  /\ comp = TimerExample /\ mounted = "yes"
  /\ isRunning \/ intervalCount < MaxKeyChanges
  /\ isRunning' = ~isRunning
  /\ TEEffect(~isRunning, intervals)
  /\ UNCHANGED <<mounted, seconds, notTimer>>

\* Pause/Start button: setIsRunning(!isRunning); the cleanup of the previous run
\* of the effect (there is one only if it set an interval), then the effect.
TEToggle ==
  /\ comp = TimerExample /\ mounted = "yes"
  /\ isRunning \/ intervalCount < MaxKeyChanges
  /\ isRunning' = ~isRunning
  /\ TEEffect(~isRunning, IF isRunning THEN ClearInterval(intervals) ELSE intervals)
  /\ UNCHANGED <<mounted, seconds, notTimer>>

\* Reset button: setSeconds(0)
TEReset ==
  /\ comp = TimerExample /\ mounted = "yes"
  /\ seconds' = 0
  /\ UNCHANGED <<mounted, isRunning, ivVars, notTimer>>

\* The interval callback: setSeconds((prevSeconds) => prevSeconds + 1); React
\* drops the update of an unmounted component.
TEIntervalTick(i) ==
  /\ comp = TimerExample /\ i \in intervals
  /\ seconds < MaxSeconds
  /\ seconds' = IF mounted = "yes" THEN seconds + 1 ELSE seconds
  /\ UNCHANGED <<mounted, isRunning, ivVars, notTimer>>

\* The component is removed: the cleanup of the effect, if its last run returned one.
TEUnmount ==
  /\ comp = TimerExample /\ mounted = "yes"
  /\ mounted' = "gone"
  /\ intervals' = IF isRunning THEN ClearInterval(intervals) ELSE intervals
  /\ UNCHANGED <<seconds, isRunning, interval, intervalCount, notTimer>>

-----------------------------------------------------------------------------
(* LocalStorageExample *)

\* favoriteColor + "20"
Tint(color) == color \o <<"2", "0">>

\* The visit count effect on the storage `store`: what newCount is.
NewCount(store) == ParseInt(GetItemOr(store, "visitCount", <<"0">>)) + 1

\* Mount of a buggy variant: the visit count effect does not write the storage.
LSMountNoSave ==
  /\ comp = LocalStorageExample /\ mounted \in {"no", "gone"}
  /\ mounts < MaxMounts
  /\ mounted' = "yes"
  /\ mounts' = mounts + 1
  /\ LET name0  == GetItemOr(localStorage, "userName", <<>>)
         color0 == GetItemOr(localStorage, "favoriteColor", DefaultColor)
         store1 == SetItem(localStorage, "userName", name0)
         store2 == SetItem(store1, "favoriteColor", color0)
     IN  /\ name' = name0
         /\ favoriteColor' = color0
         /\ backgroundColor' = Tint(color0)
         /\ visitCount' = NewCount(store2)
         /\ localStorage' = store2
  /\ lastOp' = [op |-> "mount"]
  /\ UNCHANGED notStore

\* The component is rendered (first, or again after an unmount): the lazy
\* initializers read the storage, then the three effects run in order.
LSMount ==
  /\ comp = LocalStorageExample /\ mounted \in {"no", "gone"}
  /\ mounts < MaxMounts
  /\ mounted' = "yes"
  /\ mounts' = mounts + 1
  /\ LET name0  == GetItemOr(localStorage, "userName", <<>>)
         color0 == GetItemOr(localStorage, "favoriteColor", DefaultColor)
         store1 == SetItem(localStorage, "userName", name0)
         store2 == SetItem(store1, "favoriteColor", color0)
     IN  /\ name' = name0
         /\ favoriteColor' = color0
         /\ backgroundColor' = Tint(color0)
         /\ visitCount' = NewCount(store2)
         /\ localStorage' = SetItem(store2, "visitCount", NumberToString(NewCount(store2)))
  /\ lastOp' = [op |-> "mount"]
  /\ UNCHANGED notStore

\* <input onChange>: setName(e.target.value), then the effect of [name].
LSSetName(v) ==
  /\ comp = LocalStorageExample /\ mounted = "yes"
  /\ v # name
  /\ name' = v
  /\ localStorage' = SetItem(localStorage, "userName", v)
  /\ lastOp' = [op |-> "name"]
  /\ UNCHANGED <<mounted, favoriteColor, visitCount, backgroundColor, mounts, notStore>>

\* <input type="color" onChange>: setFavoriteColor(e.target.value), then the
\* effect of [favoriteColor].
LSSetColor(c) ==
  /\ comp = LocalStorageExample /\ mounted = "yes"
  /\ c # favoriteColor
  /\ favoriteColor' = c
  /\ localStorage' = SetItem(localStorage, "favoriteColor", c)
  /\ backgroundColor' = Tint(c)
  /\ lastOp' = [op |-> "color"]
  /\ UNCHANGED <<mounted, name, visitCount, mounts, notStore>>

\* Clear All Data button: clearData, then the effects of the state it changed:
\* [name] if name was not "", [favoriteColor] if the colour was not the default.
LSClearData ==
  /\ comp = LocalStorageExample /\ mounted = "yes"
  /\ name' = <<>>
  /\ favoriteColor' = DefaultColor
  /\ visitCount' = 0
  /\ LET store1 == IF name # <<>> THEN SetItem(Cleared, "userName", <<>>) ELSE Cleared
     IN  localStorage' = IF favoriteColor # DefaultColor
                           THEN SetItem(store1, "favoriteColor", DefaultColor)
                           ELSE store1
  /\ backgroundColor' = IF favoriteColor # DefaultColor THEN Tint(DefaultColor) ELSE <<>>
  /\ lastOp' = [op |-> "clearData"]
  /\ UNCHANGED <<mounted, mounts, notStore>>

-----------------------------------------------------------------------------
(* DocumentTitleExample *)

\* The notification effect for the values n, t of this render, after the
\* cleanups have left the intervals `ivs` and the title effect the title `shown`;
\* the interval callback closes over n and t.
DTNotificationEffect(n, t, ivs, shown) ==
  IF n > 0
    THEN /\ documentTitle' = NotificationTitle(n, t)
         /\ intervalCount' = intervalCount + 1
         /\ interval' = [id |-> intervalCount + 1, notifications |-> n, pageTitle |-> t]
         /\ intervals' =
              ivs \cup {[id |-> intervalCount + 1, notifications |-> n, pageTitle |-> t]}
    ELSE /\ documentTitle' = shown
         /\ intervals' = ivs
         /\ UNCHANGED <<interval, intervalCount>>

\* The cleanup of the notification effect: there is one only if its last run
\* set an interval.
DTCleanup(ivs) == IF notifications > 0 THEN ClearInterval(ivs) ELSE ivs

\* First render: the title effect, then the notification effect (notifications = 0).
DTMount ==
  /\ comp = DocumentTitleExample /\ mounted = "no"
  /\ mounted' = "yes"
  /\ DTNotificationEffect(notifications, pageTitle, intervals, CountTitle(count, pageTitle))
  /\ UNCHANGED <<count, notifications, pageTitle, notTitle>>

\* <input onChange>: setPageTitle(e.target.value); both effects depend on
\* pageTitle: their cleanups, then the title effect, then the notification effect.
DTSetPageTitle(t) ==
  /\ comp = DocumentTitleExample /\ mounted = "yes"
  /\ t # pageTitle
  /\ notifications > 0 => intervalCount < MaxKeyChanges
  /\ pageTitle' = t
  /\ DTNotificationEffect(notifications, t, DTCleanup(intervals), CountTitle(count, t))
  /\ UNCHANGED <<mounted, count, notifications, notTitle>>

\* Increment button: setCount(count + 1); the title effect's cleanup, then the effect.
DTIncrement ==
  /\ comp = DocumentTitleExample /\ mounted = "yes"
  /\ count < MaxCount
  /\ count' = count + 1
  /\ documentTitle' = CountTitle(count + 1, pageTitle)
  /\ UNCHANGED <<mounted, notifications, pageTitle, ivVars, notTitle>>

\* Reset button: setCount(0); nothing runs if count is 0 already.
DTResetCount ==
  /\ comp = DocumentTitleExample /\ mounted = "yes"
  /\ count # 0
  /\ count' = 0
  /\ documentTitle' = CountTitle(0, pageTitle)
  /\ UNCHANGED <<mounted, notifications, pageTitle, ivVars, notTitle>>

\* Add Notification button: setNotifications(notifications + 1); the notification
\* effect's cleanup, then the effect.
DTNotify ==
  /\ comp = DocumentTitleExample /\ mounted = "yes"
  /\ notifications < MaxCount
  /\ intervalCount < MaxKeyChanges
  /\ notifications' = notifications + 1
  /\ DTNotificationEffect(notifications + 1, pageTitle, DTCleanup(intervals), documentTitle)
  /\ UNCHANGED <<mounted, count, pageTitle, notTitle>>

\* Clear button: setNotifications(0); nothing runs if there is none.
DTClearNotifications ==
  /\ comp = DocumentTitleExample /\ mounted = "yes"
  /\ notifications # 0
  /\ notifications' = 0
  /\ DTNotificationEffect(0, pageTitle, DTCleanup(intervals), documentTitle)
  /\ UNCHANGED <<mounted, count, pageTitle, notTitle>>

\* The interval callback: document.title = document.title.startsWith("(") ?
\* pageTitle : `(${notifications}) ${pageTitle}`, with the values of its render.
DTFlash(i) ==
  /\ comp = DocumentTitleExample /\ i \in intervals
  /\ documentTitle' = IF StartsWithParen(documentTitle)
                        THEN i.pageTitle
                        ELSE NotificationTitle(i.notifications, i.pageTitle)
  /\ UNCHANGED <<mounted, count, notifications, pageTitle, ivVars, notTitle>>

\* Unmount of a buggy variant: the notification effect returns no cleanup.
DTUnmountLeavesInterval ==
  /\ comp = DocumentTitleExample /\ mounted = "yes"
  /\ mounted' = "gone"
  /\ documentTitle' = ReactApp
  /\ UNCHANGED <<count, notifications, pageTitle, ivVars, notTitle>>

\* The component is removed: the cleanups of both effects run,
\* document.title = "React App" and clearInterval(interval).
DTUnmount ==
  /\ comp = DocumentTitleExample /\ mounted = "yes"
  /\ mounted' = "gone"
  /\ documentTitle' = ReactApp
  /\ intervals' = DTCleanup(intervals)
  /\ UNCHANGED <<count, notifications, pageTitle, interval, intervalCount, notTitle>>

-----------------------------------------------------------------------------
(* DynamicForm *)

\* The clock when the page was opened, in ms: Date.now() is far from the id 1
\* of the first field.
Epoch == 1000
\* Date.now()
DateNow == Epoch + now

\* A millisecond passes.
DynTick ==
  /\ comp = DynamicForm /\ mounted = "yes"
  /\ now < MaxClock
  /\ now' = now + 1
  /\ UNCHANGED <<mounted, formData, step, fields, noteVars, submits, deletes, lastOp,
                 notForms>>

\* + Add Field button: setFields([...fields, { id: Date.now(), value: "" }])
DynAddField ==
  /\ comp = DynamicForm /\ mounted = "yes"
  /\ Len(fields) < MaxFields
  /\ fields' = Append(fields, [id |-> DateNow, value |-> ""])
  /\ lastOp' = [op |-> "addField"]
  /\ UNCHANGED <<mounted, now, formData, step, noteVars, submits, deletes, notForms>>

\* The remove button of a field (rendered when fields.length > 1):
\* removeField(field.id)
DynRemoveField(id) ==
  /\ comp = DynamicForm /\ mounted = "yes"
  /\ Len(fields) > 1
  /\ fields' = FilterOutId(fields, id)
  /\ lastOp' = [op |-> "removeField"]
  /\ UNCHANGED <<mounted, now, formData, step, noteVars, submits, deletes, notForms>>

\* <input onChange> of a field: handleChange(field.id, e.target.value)
DynHandleChange(id, value) ==
  /\ comp = DynamicForm /\ mounted = "yes"
  /\ fields' = MapSetValue(fields, id, value)
  /\ lastOp' = [op |-> "handleChange"]
  /\ UNCHANGED <<mounted, now, formData, step, noteVars, submits, deletes, notForms>>

-----------------------------------------------------------------------------
(* MultiStepForm *)

\* The inputs rendered on a step.
StepFields(s) ==
  CASE s = 1 -> {"firstName", "lastName"}
    [] s = 2 -> {"email", "phone"}
    [] s = 3 -> {"address", "city"}

\* <input onChange>: setFormData((prev) => ({ ...prev, [name]: value }))
MSFHandleChange(field, value) ==
  /\ comp = MultiStepForm /\ mounted = "yes"
  /\ field \in StepFields(step)
  /\ formData' = [formData EXCEPT ![field] = value]
  /\ lastOp' = [op |-> "handleChange"]
  /\ UNCHANGED <<mounted, now, step, fields, noteVars, submits, deletes, notForms>>

\* Next of a buggy variant: the button is rendered on step 3 as well.
MSFNextStepAlways ==
  /\ comp = MultiStepForm /\ mounted = "yes"
  /\ step' = step + 1
  /\ lastOp' = [op |-> "nextStep"]
  /\ UNCHANGED <<mounted, now, formData, fields, noteVars, submits, deletes, notForms>>

\* Next button (rendered on steps 1 and 2): nextStep, setStep(step + 1)
MSFNextStep ==
  /\ comp = MultiStepForm /\ mounted = "yes"
  /\ step \in {1, 2}
  /\ step' = step + 1
  /\ lastOp' = [op |-> "nextStep"]
  /\ UNCHANGED <<mounted, now, formData, fields, noteVars, submits, deletes, notForms>>

\* Back button (rendered on steps 2 and 3): prevStep, setStep(step - 1)
MSFPrevStep ==
  /\ comp = MultiStepForm /\ mounted = "yes"
  /\ step \in {2, 3}
  /\ step' = step - 1
  /\ lastOp' = [op |-> "prevStep"]
  /\ UNCHANGED <<mounted, now, formData, fields, noteVars, submits, deletes, notForms>>

-----------------------------------------------------------------------------
(* Notes app *)

\* <input onChange>: setTitle(e.target.value)
NotesSetTitle(v) ==
  /\ comp = NotesApp /\ mounted = "yes"
  /\ title' = v
  /\ lastOp' = [op |-> "title"]
  /\ UNCHANGED <<mounted, now, formData, step, fields, details, notes, submits, deletes,
                 notForms>>

\* <textarea onChange>: setDetails(e.target.value)
NotesSetDetails(v) ==
  /\ comp = NotesApp /\ mounted = "yes"
  /\ details' = v
  /\ lastOp' = [op |-> "details"]
  /\ UNCHANGED <<mounted, now, formData, step, fields, title, notes, submits, deletes,
                 notForms>>

\* <form onSubmit>: submitHandler
NotesSubmit ==
  /\ comp = NotesApp /\ mounted = "yes"
  /\ submits < MaxNotes
  /\ notes' = Append(notes, [title |-> title, details |-> details])
  /\ title' = ""
  /\ details' = ""
  /\ submits' = submits + 1
  /\ lastOp' = [op |-> "submitHandler"]
  /\ UNCHANGED <<mounted, now, formData, step, fields, deletes, notForms>>

\* deleteNote of a buggy variant: the last note is removed, whatever idx is.
NotesDeleteLast(idx) ==
  /\ comp = NotesApp /\ mounted = "yes"
  /\ idx \in 0..(Len(notes) - 1)
  /\ notes' = Splice(notes, Len(notes) - 1)
  /\ deletes' = deletes + 1
  /\ lastOp' = [op |-> "deleteNote", idx |-> idx]
  /\ UNCHANGED <<mounted, now, formData, step, fields, title, details, submits, notForms>>

\* The delete button of the note at position idx: deleteNote(idx)
NotesDelete(idx) ==
  /\ comp = NotesApp /\ mounted = "yes"
  /\ idx \in 0..(Len(notes) - 1)
  /\ notes' = Splice(notes, idx)
  /\ deletes' = deletes + 1
  /\ lastOp' = [op |-> "deleteNote", idx |-> idx]
  /\ UNCHANGED <<mounted, now, formData, step, fields, title, details, submits, notForms>>

-----------------------------------------------------------------------------
(* Lifecycle and time *)

\* Unmount of a buggy variant: the debounce effect returns no cleanup.
UnmountNoCleanup ==
  /\ mounted = "yes"
  /\ mounted' = "gone"
  /\ UNCHANGED <<fetchVars, searchVars, timer, timers, inflight, now, others, histFetch,
                 histTimer>>

\* The component is removed: React runs the cleanup of every effect that has one.
Unmount ==
  /\ comp \notin {TimerExample, DocumentTitleExample}
  /\ mounted = "yes"
  /\ mounted' = "gone"
  /\ timers' = IF comp \in Debounced THEN Cleanup(timers) ELSE timers
  /\ UNCHANGED <<fetchVars, searchVars, timer, inflight, now, others, histFetch, histTimer>>

\* Time passes, but not beyond the moment a pending timer is due: the event loop
\* runs a due callback before anything later.
Tick ==
  /\ comp \in Debounced /\ mounted # "no"
  /\ now < MaxTime
  /\ \A t \in timers : t.due > now
  /\ \E next \in {Min(now + TickMs, MaxTime)} \cup {t.due : t \in timers} :
       /\ \A other \in {Min(now + TickMs, MaxTime)} \cup {t.due : t \in timers} : next <= other
       /\ now' = next
  /\ UNCHANGED <<fetchVars, searchVars, timer, timers, inflight, others, mounted,
                 histFetch, histTimer>>

Next ==
  \/ DFMount
  \/ \E id \in UserIds : DFSelect(id)
  \/ \E r \in inflight : DFResolve(r)
  \/ \E r \in inflight : DFReject(r)
  \/ FDEMount
  \/ \E id \in UserIds : FDESelect(id)
  \/ \E r \in inflight, ok \in BOOLEAN : FDEResponse(r, ok)
  \/ \E r \in inflight : FDEReject(r)
  \/ DSEMount
  \/ \E v \in Terms : DSEType(v)
  \/ DSESameInput
  \/ \E t \in timers : DSETimerFire(t)
  \/ \E r \in inflight : DSEResolve(r)
  \/ \E r \in inflight : DSEReject(r)
  \/ SWDMount
  \/ \E v \in Terms : SWDType(v)
  \/ \E t \in timers : SWDTimerFire(t)
  \/ \E r \in inflight : SWDResolve(r)
  \/ \E r \in inflight : SWDReject(r)
  \/ SFMount
  \/ \E v \in Terms : SFType(v)
  \/ \E t \in timers : SFTimerFire(t)
  \/ FOMMount
  \/ \E r \in inflight : FOMResolve(r)
  \/ \E r \in inflight : FOMReject(r)
  \/ GalleryMount
  \/ GalleryNext
  \/ GalleryPrevious
  \/ \E r \in inflight : GalleryResolve(r)
  \/ \E r \in inflight : GalleryReject(r)
  \/ PlainMount
  \/ \E v \in Texts : CDSetTitle(v)
  \/ \E v \in Texts : CDSetBody(v)
  \/ CDSubmit
  \/ \E r \in inflight : CDResolve(r)
  \/ \E r \in inflight : CDReject(r)
  \/ LSMount
  \/ \E v \in Names : LSSetName(v)
  \/ \E c \in Colors : LSSetColor(c)
  \/ LSClearData
  \/ DTMount
  \/ \E t \in PageTitles : DTSetPageTitle(t)
  \/ DTIncrement
  \/ DTResetCount
  \/ DTNotify
  \/ DTClearNotifications
  \/ \E i \in intervals : DTFlash(i)
  \/ DTUnmount
  \/ DynTick
  \/ DynAddField
  \/ \E i \in 1..Len(fields) : DynRemoveField(fields[i].id)
  \/ \E i \in 1..Len(fields), v \in Texts : DynHandleChange(fields[i].id, v)
  \/ \E f \in DOMAIN formData, v \in Texts : MSFHandleChange(f, v)
  \/ MSFNextStep
  \/ MSFPrevStep
  \/ \E v \in Texts : NotesSetTitle(v)
  \/ \E v \in Texts : NotesSetDetails(v)
  \/ NotesSubmit
  \/ \E idx \in 0..(Len(notes) - 1) : NotesDelete(idx)
  \/ TEMount
  \/ TEToggle
  \/ TEReset
  \/ \E i \in intervals : TEIntervalTick(i)
  \/ TEUnmount
  \/ Unmount
  \/ Tick

Spec == Init /\ [][Next]_vars

-----------------------------------------------------------------------------
(* Liveness *)

\* The network answers: the response of some request in flight is handled.
Deliver ==
  \E r \in inflight :
    \/ DFResolve(r) \/ DFReject(r)
    \/ FDEReject(r) \/ (\E ok \in BOOLEAN : FDEResponse(r, ok))
    \/ DSEResolve(r) \/ DSEReject(r)
    \/ SWDResolve(r) \/ SWDReject(r)
    \/ FOMResolve(r) \/ FOMReject(r)
    \/ GalleryResolve(r) \/ GalleryReject(r)
    \/ CDResolve(r) \/ CDReject(r)

\* Every request is answered eventually; the bounds of the model stop the key changes.
LiveSpec == Spec /\ WF_vars(Deliver)

-----------------------------------------------------------------------------
(* Properties *)

\* The response of request r is handled in this step.
Handled(r) == r \in inflight /\ r \notin inflight'

\* C1 (stale suppression): in DynamicFetch, FetchDataExample and
\* DebounceSearchExample, handling the response of a request that a later key
\* change has superseded changes none of data, error and loading.
C1_StaleSuppression ==
  [][\A r \in inflight :
       (/\ comp \in {DynamicFetch, FetchDataExample, DebounceSearchExample}
        /\ mounted = "yes"
        /\ Handled(r)
        /\ r.seq < keyChanges)
       => UNCHANGED <<user, error, loading, results, isSearching>>]_vars

\* C2 (latest key wins): when no request is in flight and the request of the most
\* recent key has succeeded, the displayed data is the payload of that key.
C2_LatestKeyWins ==
  (mounted = "yes" /\ inflight = {} /\ latest = "ok") =>
    /\ comp \in KeyedFetch => user = UserData(userId)
    /\ comp = DebounceSearchExample => results = Payload(debouncedTerm)

\* C3 (debounce quiescence): the debounce callback does not run while less than
\* the delay has passed since the last change of the raw input; it runs exactly
\* once, the delay after the last change, and sets debouncedTerm to the last value.
C3_DebounceQuiescence ==
  (comp \in {DebounceSearchExample, SearchForm} /\ mounted = "yes") =>
    /\ firesSinceChange <= 1
    /\ now < lastChangeAt + DelayMs => firesSinceChange = 0
    /\ firesSinceChange = 1 =>
         debouncedTerm = searchTerm /\ lastFireAt = lastChangeAt + DelayMs
    /\ now > lastChangeAt + DelayMs => firesSinceChange = 1

\* C3's case: a burst of at least two changes has ended on "re", the delay has
\* passed and the one callback has run.
C3_Witness ==
  /\ comp = DebounceSearchExample /\ mounted = "yes"
  /\ burstStart < lastChangeAt
  /\ firesSinceChange = 1
  /\ prevDebounced = <<>>
  /\ debouncedTerm = <<"r", "e">>

\* C4 (one fetch per burst): no request is issued while less than the delay has
\* passed since the last keystroke; after the quiet period at most one request has
\* been issued, for the final term, and exactly one when that term is not blank
\* (and, in DebounceSearchExample, differs from the previous debounced term).
C4_OneFetchPerBurst ==
  (comp \in Searching /\ mounted = "yes") =>
    /\ reqsSinceChange <= 1
    /\ now < lastChangeAt + DelayMs => reqsSinceChange = 0
    /\ reqsSinceChange = 1 =>
         lastReqKey = searchTerm /\ lastFireAt = lastChangeAt + DelayMs
    /\ (/\ firesSinceChange = 1
        /\ Trim(searchTerm) # <<>>
        /\ comp = DebounceSearchExample => searchTerm # prevDebounced)
       => reqsSinceChange = 1

\* C4's case: a burst of at least two keystrokes ended on "re" and the only
\* request ever issued is the one for "re".
C4_Witness ==
  /\ comp = DebounceSearchExample /\ mounted = "yes"
  /\ burstStart < lastChangeAt
  /\ reqsSinceChange = 1
  /\ lastReqKey = <<"r", "e">>
  /\ searchCount = 1

\* C5 (token monotonicity): in DebounceSearchExample every request raises
\* searchCount, and a response is written to state if and only if no key change
\* happened after its request was issued.
C5_TokenMonotonicity ==
  [][(comp = DebounceSearchExample /\ mounted = "yes") =>
       /\ inflight' \ inflight # {} => searchCount' > searchCount
       /\ lastDelivery' # lastDelivery => (lastDelivery'.wrote <=> lastDelivery'.current)]_vars

\* C6 (empty-key idle): a key change to a blank term leaves the search component
\* Idle: results empty, not searching or loading, no error, no request issued.
C6_EmptyKeyIdle ==
  [][(/\ comp \in Searching
      /\ mounted = "yes"
      /\ keyChanges' # keyChanges
      /\ latest' = "empty")
     => /\ results' = <<>>
        /\ ~isSearching' /\ ~loading'
        /\ error' = Null
        /\ inflight' = inflight]_vars

\* C7 (empty key mid-flight): a response handled while the current key is blank
\* is discarded: results stay empty and the component stays Idle.
C7_EmptyKeyMidFlight ==
  [][(/\ comp \in Searching
      /\ mounted = "yes"
      /\ latest = "empty"
      /\ \E r \in inflight : Handled(r))
     => /\ results' = <<>>
        /\ ~isSearching' /\ ~loading']_vars

\* C8 (teardown): after unmount no debounce timer is pending and no debounce
\* callback has run since the unmount.
C8_Teardown ==
  (comp \in Debounced /\ mounted = "gone") => (timers = {} /\ ~firedAfterUnmount)

\* C8's case: the component was unmounted with a timer for "r" pending, and the
\* time at which that timer was due has come without its callback running.
C8_Witness ==
  /\ comp \in Searching /\ mounted = "gone"
  /\ searchTerm = <<"r">>
  /\ now >= lastChangeAt + DelayMs
  /\ firesSinceChange = 0
  /\ inflight = {}

\* C9 (cancel-and-restart): at most one debounce timer is pending, and it carries
\* the current raw value.
C9_CancelAndRestart ==
  comp \in Debounced =>
    /\ Cardinality(timers) <= 1
    /\ \A t \in timers : t.value = searchTerm /\ t = timer

\* C9's case: a change of the raw input within the delay of the previous one has
\* replaced the pending timer.
C9_Witness ==
  /\ comp \in Searching /\ mounted = "yes"
  /\ burstStart < lastChangeAt
  /\ timers = {[value |-> <<"r", "e">>, due |-> lastChangeAt + DelayMs]}

C11_ErrorsSurfaced ==
  [][(/\ comp \in {DynamicFetch, FetchDataExample, FetchOnMount, DebounceSearchExample}
      /\ mounted = "yes"
      /\ lastDelivery' # lastDelivery
      /\ lastDelivery'.kind = "fail")
     => (error' # Null /\ ~loading' /\ ~isSearching')]_vars

\* C12 (no automatic retry): a request is issued only by the mount or by a change
\* of the key (userId, index); handling a response, failed or not, issues none.
C12_NoAutomaticRetry ==
  [][(comp \in {DynamicFetch, FetchDataExample, FetchOnMount, Gallery}) =>
       /\ inflight' \ inflight # {} =>
            /\ (mounted = "no" /\ mounted' = "yes") \/ userId' # userId \/ index' # index
            /\ Cardinality(inflight' \ inflight) = 1
       /\ (\E r \in inflight : Handled(r)) => inflight' \subseteq inflight]_vars

\* C12's case: the one request of FetchOnMount has failed and nothing is in flight.
C12_Witness ==
  /\ comp = FetchOnMount /\ mounted = "yes"
  /\ lastDelivery.kind = "fail"
  /\ error # Null /\ ~loading
  /\ inflight = {}

\* The four statuses of a keyed fetch component, from its state.
StatusHolds(status) ==
  CASE status = "Loading" -> loading
    [] status = "Error"   -> error # Null
    [] status = "Success" -> ~loading /\ error = Null /\ user # Null
    [] status = "Idle"    -> ~loading /\ error = Null /\ user = Null

\* C13 (status exclusivity): in DynamicFetch and FetchDataExample exactly one of
\* Idle, Loading, Success, Error holds; loading is never true with a non-null error.
C13_StatusExclusivity ==
  comp \in KeyedFetch =>
    /\ Cardinality({st \in {"Idle", "Loading", "Success", "Error"} : StatusHolds(st)}) = 1
    /\ ~(loading /\ error # Null)

\* C13's case: a failure was handled while another request is in flight.
C13_Witness ==
  /\ comp \in KeyedFetch /\ mounted = "yes"
  /\ keyChanges >= 2
  /\ error # Null
  /\ inflight # {}

\* C14 (data only on success), as claimed: user is non-null only in the Success
\* status, that is never while loading and never beside an error.
C14_DataOnlyOnSuccess ==
  comp \in KeyedFetch => (user # Null => (~loading /\ error = Null))

\* C14, amended: user changes only when a successful response is handled, and
\* then to that response's payload; starting a fetch for a new key and handling
\* a failure leave it as it was.
C14_DataKeptUntilNextSuccess ==
  [][(comp \in KeyedFetch /\ user' # user) =>
       \E r \in inflight :
         Handled(r) /\ lastDelivery'.kind = "ok" /\ user' = UserData(r.key)]_vars

\* C14's case: a new key is loading and user still holds the payload of an
\* earlier key.
C14_Witness ==
  /\ comp \in KeyedFetch /\ mounted = "yes"
  /\ loading
  /\ user # Null /\ user # UserData(userId)

\* C15 (key change starts a cycle): a change of userId sets loading with
\* error = null and issues exactly one request, for the new key, in the same step;
\* no response is handled in it.
C15_KeyChangeStartsCycle ==
  [][(comp \in KeyedFetch /\ userId' # userId) =>
       /\ loading' /\ error' = Null
       /\ inflight \subseteq inflight'
       /\ inflight' \ inflight = {[seq |-> keyChanges', key |-> userId']}
       /\ lastDelivery' = lastDelivery]_vars

\* C15's case: the key was changed in the Error status; the component is loading
\* again, the error is cleared and the one request of the new key is in flight.
C15_Witness ==
  /\ comp \in KeyedFetch /\ mounted = "yes"
  /\ lastDelivery.kind = "fail" /\ lastDelivery.seq = keyChanges - 1
  /\ loading /\ error = Null
  /\ inflight = {[seq |-> keyChanges, key |-> userId]}

\* C16 (loading is left only by the current response): while the request of the
\* most recent key is pending, handling the response of a superseded request
\* leaves loading / isSearching as it is.
C16_LoadingLeftByCurrentOnly ==
  [][\A r \in inflight :
       (/\ comp \in KeyedFetch \cup {DebounceSearchExample}
        /\ mounted = "yes"
        /\ latest = "pending"
        /\ loading \/ isSearching
        /\ Handled(r)
        /\ r.seq < keyChanges)
       => (loading' = loading /\ isSearching' = isSearching)]_vars

C18_EmptyStringPropagates ==
  [][((/\ comp \in {DebounceSearchExample, SearchForm}
       /\ mounted = "yes"
       /\ searchTerm = <<>>
       /\ firesSinceChange' = firesSinceChange + 1)
     => /\ debouncedTerm' = <<>>
        /\ debouncedTerm # <<>> => results' = <<>>)
     /\ ((/\ comp \in {DebounceSearchExample, SearchForm}
          /\ mounted = "yes"
          /\ searchTerm = <<>> /\ debouncedTerm # <<>>)
         => \E t \in timers : t.value = <<>> /\ t.due = lastChangeAt + DelayMs)]_vars

\* C18's case: "r" was the stable value with results shown, the input was
\* cleared, and the callback has made "" the stable value.
C18_Witness ==
  /\ comp = DebounceSearchExample /\ mounted = "yes"
  /\ searchTerm = <<>> /\ firesSinceChange = 1
  /\ prevDebounced = <<"r">> /\ debouncedTerm = <<>>
  /\ lastDelivery.kind = "ok" /\ latest = "empty"
  /\ results = <<>>

\* C19 (gallery pagination): at most one page request is in flight, it is for
\* the displayed index, loading is true exactly while it is in flight, and after
\* a successful fetch the images shown are those of the displayed index.
C19_GalleryPagination ==
  comp = Gallery =>
    /\ Cardinality(inflight) <= 1
    /\ mounted # "gone" => \A r \in inflight : r.key = index
    /\ mounted = "yes" => (loading <=> inflight # {})
    /\ (mounted = "yes" /\ ~loading /\ latest = "ok") => userData = PageData(index)

\* C19's case: after Next and Previous the images of page 2 are shown on page 2.
C19_Witness ==
  /\ comp = Gallery /\ mounted = "yes"
  /\ lastClick.button = "previous"
  /\ index = 2 /\ ~loading /\ latest = "ok"
  /\ userData = PageData(2)

\* C20 (gallery page index bound): index >= 1; a click of Next has raised it by
\* exactly 1, a click of Previous has lowered it by 1, and a press of Previous on
\* page 1 (as any press of a disabled button) has left it alone without a request.
C20_GalleryIndexBound ==
  comp = Gallery =>
    /\ index >= 1
    /\ (lastClick.button = "next" /\ ~lastClick.disabled) => index = lastClick.from + 1
    /\ (lastClick.button = "previous" /\ ~lastClick.disabled) =>
         lastClick.from > 1 /\ index = lastClick.from - 1
    /\ (lastClick.button = "previous" /\ lastClick.from = 1) =>
         index = 1 /\ ~lastClick.requested
    /\ lastClick.disabled => index = lastClick.from /\ ~lastClick.requested

\* C20's case: Next and Previous have brought the gallery back to page 1, and
\* Previous was pressed there.
C20_Witness ==
  /\ comp = Gallery /\ mounted = "yes"
  /\ keyChanges = 3
  /\ lastClick = [button |-> "previous", from |-> 1, disabled |-> TRUE, requested |-> FALSE]
  /\ index = 1 /\ ~loading /\ inflight = {}

\* C21 (no stuck loading): when every request is answered and the key changes
\* stop, the loading flag (loading / isSearching) of the mounted component is
\* eventually false and stays false.
C21_NoStuckLoading ==
  <>[](mounted # "yes" \/ ~(loading \/ isSearching))

\* C21's case: two searches were started, the superseded response was handled
\* last, nothing is in flight and the flag is off.
C21_Witness ==
  /\ comp \in Searching /\ mounted = "yes"
  /\ keyChanges >= 2
  /\ lastDelivery.seq < keyChanges /\ lastDelivery.kind = "fail"
  /\ inflight = {}
  /\ ~loading /\ ~isSearching

\* C22 (CreateData submission): a submit sets loading and clears error and
\* response and posts the form; handling the answer ends loading, stores the
\* response and empties the form on success, stores the error and leaves response
\* null and the form untouched on failure; at most one POST is in flight.
C22_CreateDataSubmission ==
  [][comp = CreateData =>
       /\ keyChanges' # keyChanges =>
            /\ loading' /\ error' = Null /\ response' = Null
            /\ inflight' = {[seq |-> keyChanges', key |-> formData]}
            /\ formData' = formData
       /\ \A r \in inflight : (Handled(r) /\ mounted = "yes") =>
            /\ ~loading'
            /\ lastDelivery'.kind = "ok" =>
                 response' = Created(r.key) /\ formData' = EmptyPost /\ error' = Null
            /\ lastDelivery'.kind = "fail" =>
                 error' # Null /\ response' = Null /\ formData' = formData
       /\ Cardinality(inflight') <= 1]_vars

\* C22's case: the second submit has failed: the error is shown, the response of
\* the first submit is gone and the form still holds what was typed.
C22_Witness ==
  /\ comp = CreateData /\ mounted = "yes"
  /\ keyChanges = 2
  /\ lastDelivery.seq = 2 /\ lastDelivery.kind = "fail"
  /\ error # Null /\ response = Null /\ ~loading
  /\ formData.title = "a" /\ formData.body = "a"

\* C23 (TimerExample): at most one interval is active; while paused none is, so
\* seconds changes only through Reset; a tick raises seconds by exactly 1, and
\* only while running; after unmount no interval is active.
C23_TimerExample ==
  [][comp = TimerExample =>
       /\ Cardinality(intervals') <= 1
       /\ ~isRunning' => intervals' = {}
       /\ mounted' = "gone" => intervals' = {}
       /\ seconds' # seconds =>
            \/ seconds' = 0 /\ intervals' = intervals
            \/ isRunning /\ mounted = "yes" /\ intervals # {} /\ seconds' = seconds + 1]_vars

\* C23's case: the timer ran, was paused, started again and paused again at 2 s.
C23_Witness ==
  /\ comp = TimerExample /\ mounted = "yes"
  /\ ~isRunning /\ intervals = {}
  /\ intervalCount = 2
  /\ seconds = 2

\* C24 (visit count): a mount of LocalStorageExample stores the previous stored
\* visitCount (0 when absent) plus 1, and shows the value it stored.
C24_VisitCount ==
  [][(comp = LocalStorageExample /\ mounts' = mounts + 1) =>
       LET previous == IF "visitCount" \in DOMAIN localStorage
                         THEN ParseInt(localStorage["visitCount"]) ELSE 0
       IN  /\ "visitCount" \in DOMAIN localStorage'
           /\ localStorage'["visitCount"] = NumberToString(previous + 1)
           /\ visitCount' = previous + 1
           /\ ParseInt(localStorage'["visitCount"]) = visitCount']_vars

\* C24's case: the third mount in a row shows and stores 3.
C24_Witness ==
  /\ comp = LocalStorageExample /\ mounted = "yes"
  /\ mounts = 3 /\ lastOp.op = "mount"
  /\ visitCount = 3
  /\ localStorage["visitCount"] = <<"3">>

\* C25 (Clear All Data): once clearData and the effects it triggers have run,
\* the storage holds none of userName, favoriteColor, visitCount, the state is
\* the default and the page background is empty.
C25_ClearAllData ==
  (comp = LocalStorageExample /\ mounted = "yes" /\ lastOp.op = "clearData") =>
    /\ DOMAIN localStorage \cap {"userName", "favoriteColor", "visitCount"} = {}
    /\ name = <<>> /\ favoriteColor = DefaultColor /\ visitCount = 0
    /\ backgroundColor = <<>>

\* C26 (DocumentTitleExample cleanup): at most one flashing interval exists;
\* once the component is unmounted the title is "React App", no interval is
\* left, and the title does not change again.
C26_TitleCleanup ==
  [][comp = DocumentTitleExample =>
       /\ Cardinality(intervals') <= 1
       /\ mounted' = "gone" => (documentTitle' = ReactApp /\ intervals' = {})
       /\ mounted = "gone" => documentTitle' = documentTitle]_vars

\* C26's case: the component was unmounted with a renamed page, a count and a
\* flashing title.
C26_Witness ==
  /\ comp = DocumentTitleExample /\ mounted = "gone"
  /\ count >= 1 /\ notifications >= 1 /\ pageTitle = <<"(", "x">>
  /\ intervalCount >= 2
  /\ documentTitle = ReactApp /\ intervals = {}

\* C27 (DynamicForm fields): the list of fields is never empty, a removal deletes
\* exactly one field and keeps the others in order, and an edit changes the
\* value of one field only.
C27_DynamicFormFields ==
  [][comp = DynamicForm =>
       /\ fields' # <<>>
       /\ Len(fields') < Len(fields) =>
            \E i \in 1..Len(fields) : fields' = Splice(fields, i - 1)
       /\ Len(fields') = Len(fields) =>
            Cardinality({i \in 1..Len(fields) : fields'[i] # fields[i]}) <= 1]_vars

\* C28 (MultiStepForm step bound): the step is 1, 2 or 3, it moves by one, and a
\* move between steps leaves formData as it is.
C28_MultiStepBound ==
  [][comp = MultiStepForm =>
       /\ step' \in 1..3
       /\ step' # step => (step' \in {step - 1, step + 1} /\ formData' = formData)]_vars

\* C28's case: fields of steps 1 and 3 were filled in and the form is back on
\* step 1.
C28_Witness ==
  /\ comp = MultiStepForm /\ mounted = "yes"
  /\ lastOp.op = "prevStep" /\ step = 1
  /\ formData.firstName = "a" /\ formData.city = "a" /\ formData.email = ""

\* C29 (Notes app list operations): a submit appends one note with the current
\* title and details and clears both inputs; deleteNote(idx) removes the note at
\* position idx and keeps the others in order; the length of the list is the
\* number of submits minus the number of deletes.
C29_NotesListOperations ==
  [][comp = NotesApp =>
       /\ submits' # submits =>
            /\ notes' = notes \o << [title |-> title, details |-> details] >>
            /\ title' = "" /\ details' = ""
       /\ deletes' # deletes =>
            /\ Len(notes') = Len(notes) - 1
            /\ \A j \in 1..Len(notes') :
                 notes'[j] = notes[IF j <= lastOp'.idx THEN j ELSE j + 1]
       /\ Len(notes') = submits' - deletes']_vars

\* C29's case: of three notes the first was deleted; the other two remain in order.
C29_Witness ==
  /\ comp = NotesApp /\ mounted = "yes"
  /\ submits = 3 /\ deletes = 1
  /\ lastOp = [op |-> "deleteNote", idx |-> 0]
  /\ notes = << [title |-> "a", details |-> ""], [title |-> "", details |-> "a"] >>

====
